---- MODULE Spec2Model ----
(***************************************************************************)
(* Model of the fungible-token contract of src/ft/src/lib.rs.              *)
(*                                                                         *)
(* The contract is a thin composition: Contract::new (lines 60-76) builds  *)
(* a FungibleToken and mints the supply to the owner; the macros           *)
(* impl_fungible_token_core! (line 87) and impl_fungible_token_storage!    *)
(* (line 88) expand to the public entry points ft_transfer,                *)
(* ft_transfer_call, ft_resolve_transfer, ft_total_supply, ft_balance_of,  *)
(* storage_deposit, storage_withdraw, storage_unregister,                  *)
(* storage_balance_bounds and storage_balance_of, which delegate to the    *)
(* FungibleToken of near-contract-standards 4.x.  The operators below      *)
(* follow that delegated code step by step (its panics, their order, and   *)
(* its unchecked paths).                                                   *)
(*                                                                         *)
(* Execution model: every function call is one receipt that runs to        *)
(* completion or panics; a panic rolls the contract state back and the     *)
(* runtime returns the attached deposit to the predecessor.  The only      *)
(* suspension is between ft_transfer_call and its callback                 *)
(* ft_resolve_transfer, during which other receipts may run.               *)
(***************************************************************************)
EXTENDS Integers, FiniteSets, Sequences, TLC

(* ----------------------------- bounds ---------------------------------- *)

\* Largest value of the balance type (U128 in the code, scaled down).
U128_MAX == 2

\* Largest amount attached above the minimum storage balance.
MaxExtraDeposit == 1

\* Number of ft_transfer_call promises that can be in flight at once.
MaxInFlight == 1

(* --------------------------- environment ------------------------------- *)

AccountIds == {"alice", "bob", "carol"}

\* Option<AccountId>::None
NoAccount == "none"

\* Bytes one account entry takes, measured by FungibleToken::new (scaled).
account_storage_usage == 2

\* env::storage_byte_cost() (scaled).
storage_byte_cost == 1

\* assert_one_yocto: the attached deposit the guarded calls require.
ONE_YOCTO == 1

Min(a, b) == IF a <= b THEN a ELSE b

\* Option<bool> of storage_unregister's argument.
ForceArgs == {"absent", "false", "true"}

\* A default of true for an absent force argument.
unwrap_or_true(force) == force # "false"

\* force.unwrap_or(false)
unwrap_or_false(force) == force = "true"

(* ------------------------------ state ---------------------------------- *)

VARIABLES
    state_exists,   \* env::state_exists(): the contract has been initialized
    accounts,       \* token.accounts: LookupMap<AccountId, Balance>
    total_supply,   \* token.total_supply
    metadata,       \* the LazyOption holding the metadata
    inflight,       \* promises of ft_transfer_call awaiting their callback
    last            \* the last receipt that returned

vars == <<state_exists, accounts, total_supply, metadata, inflight, last>>

\* The empty LookupMap.
EmptyMap == [a \in {} |-> 0]

\* The token part of the state, as the helpers below thread it.
Token(acc, ts) == [accounts |-> acc, total_supply |-> ts]

CurrentToken == Token(accounts, total_supply)

\* Outcome of a helper: it returned with a new token state, or it panicked.
Returned(t) == [ok |-> TRUE, err |-> "", t |-> t]

Panicked(msg, t) == [ok |-> FALSE, err |-> msg, t |-> t]

RECURSIVE SumOver(_, _)
SumOver(f, S) ==
    IF S = {} THEN 0
    ELSE LET a == CHOOSE x \in S : TRUE IN f[a] + SumOver(f, S \ {a})

\* Sum of the balances of all registered accounts.
SumBalances(acc) == SumOver(acc, DOMAIN acc)

(* ------------------------ FungibleToken core --------------------------- *)

\* self.accounts.get(&account_id).unwrap_or(0)
balance_or_zero(acc, account_id) ==
    IF account_id \in DOMAIN acc THEN acc[account_id] ELSE 0

\* StorageManagement::storage_balance_bounds().min
storage_balance_bounds_min == account_storage_usage * storage_byte_cost

\* FungibleToken::internal_register_account
internal_register_account(t, account_id) ==
    IF account_id \in DOMAIN t.accounts
    THEN Panicked("The account is already registered", t)
    ELSE Returned(Token([a \in DOMAIN t.accounts \cup {account_id} |->
                            IF a = account_id THEN 0 ELSE t.accounts[a]],
                        t.total_supply))

\* A deposit that takes a missing entry for a zero balance, as
\* accounts.get(..).unwrap_or(0) would, and so creates the entry.
internal_deposit_unchecked(t, account_id, amount) ==
    IF balance_or_zero(t.accounts, account_id) + amount > U128_MAX
    THEN Panicked("Balance overflow", t)
    ELSE IF t.total_supply + amount > U128_MAX
    THEN Panicked("Total supply overflow", t)
    ELSE Returned(Token([a \in DOMAIN t.accounts \cup {account_id} |->
                            IF a = account_id
                            THEN balance_or_zero(t.accounts, account_id) + amount
                            ELSE t.accounts[a]],
                        t.total_supply + amount))

\* A deposit that adds with wrapping arithmetic instead of checked_add.
internal_deposit_wrapping(t, account_id, amount) ==
    IF account_id \notin DOMAIN t.accounts
    THEN Panicked("The account is not registered", t)
    ELSE Returned(Token([t.accounts EXCEPT
                            ![account_id] = (@ + amount) % (U128_MAX + 1)],
                        (t.total_supply + amount) % (U128_MAX + 1)))

\* FungibleToken::internal_deposit
internal_deposit(t, account_id, amount) ==
    IF account_id \notin DOMAIN t.accounts
    THEN Panicked("The account is not registered", t)
    ELSE IF t.accounts[account_id] + amount > U128_MAX
    THEN Panicked("Balance overflow", t)
    ELSE IF t.total_supply + amount > U128_MAX
    THEN Panicked("Total supply overflow", t)
    ELSE Returned(Token([t.accounts EXCEPT ![account_id] = @ + amount],
                        t.total_supply + amount))

\* A withdraw that forgets to lower the total supply.
internal_withdraw_keeps_supply(t, account_id, amount) ==
    IF account_id \notin DOMAIN t.accounts
    THEN Panicked("The account is not registered", t)
    ELSE IF t.accounts[account_id] - amount < 0
    THEN Panicked("The account doesn't have enough balance", t)
    ELSE Returned(Token([t.accounts EXCEPT ![account_id] = @ - amount],
                        t.total_supply))

\* FungibleToken::internal_withdraw
internal_withdraw(t, account_id, amount) ==
    IF account_id \notin DOMAIN t.accounts
    THEN Panicked("The account is not registered", t)
    ELSE IF t.accounts[account_id] - amount < 0
    THEN Panicked("The account doesn't have enough balance", t)
    ELSE IF t.total_supply - amount < 0
    THEN Panicked("Total supply overflow", t)
    ELSE Returned(Token([t.accounts EXCEPT ![account_id] = @ - amount],
                        t.total_supply - amount))

\* A transfer that checks the balance with >= where > is meant, so that it
\* refuses to move a sender's whole balance, and that lets amount 0 through.
internal_transfer_off_by_one(t, sender_id, receiver_id, amount) ==
    IF sender_id = receiver_id
    THEN Panicked("Sender and receiver should be different", t)
    ELSE IF sender_id \in DOMAIN t.accounts /\ amount >= t.accounts[sender_id]
    THEN Panicked("The account doesn't have enough balance", t)
    ELSE LET w == internal_withdraw(t, sender_id, amount) IN
         IF ~w.ok THEN Panicked(w.err, t)
         ELSE LET d == internal_deposit(w.t, receiver_id, amount) IN
              IF ~d.ok THEN Panicked(d.err, t) ELSE d

\* A transfer that credits the receiver twice the amount it debits.
internal_transfer_double_credit(t, sender_id, receiver_id, amount) ==
    IF sender_id = receiver_id
    THEN Panicked("Sender and receiver should be different", t)
    ELSE IF ~(amount > 0)
    THEN Panicked("The amount should be a positive number", t)
    ELSE LET w == internal_withdraw(t, sender_id, amount) IN
         IF ~w.ok THEN Panicked(w.err, t)
         ELSE LET d == internal_deposit(w.t, receiver_id, amount) IN
              IF ~d.ok THEN Panicked(d.err, t)
              ELSE Returned(Token([d.t.accounts EXCEPT ![sender_id] = @ + amount],
                                  d.t.total_supply))

\* FungibleToken::internal_transfer
internal_transfer(t, sender_id, receiver_id, amount) ==
    IF sender_id = receiver_id
    THEN Panicked("Sender and receiver should be different", t)
    ELSE IF ~(amount > 0)
    THEN Panicked("The amount should be a positive number", t)
    ELSE LET w == internal_withdraw(t, sender_id, amount) IN
         IF ~w.ok THEN Panicked(w.err, t)
         ELSE LET d == internal_deposit(w.t, receiver_id, amount) IN
              IF ~d.ok THEN Panicked(d.err, t) ELSE d

\* FungibleTokenCore::ft_balance_of
ft_balance_of(account_id) == balance_or_zero(accounts, account_id)

\* FungibleTokenCore::ft_total_supply
ft_total_supply == total_supply

(* ----------------------- FungibleToken storage ------------------------ *)

\* FungibleToken::internal_storage_balance_of: Some(total) or None (-1);
\* the available part of the StorageBalance is the literal 0.
NoBalance == -1

internal_storage_balance_of(t, account_id) ==
    IF account_id \in DOMAIN t.accounts
    THEN [total |-> storage_balance_bounds_min, available |-> 0]
    ELSE [total |-> NoBalance, available |-> 0]

\* What FungibleToken::internal_storage_unregister sends to the account it
\* closes: Promise::new(account_id).transfer(storage_balance_bounds().min + 1).
unregister_payout == storage_balance_bounds_min + 1

\* An unregister that removes a funded account without burning its balance
\* from the total supply.
internal_storage_unregister_no_burn(t, account_id, force) ==
    IF account_id \in DOMAIN t.accounts
    THEN LET balance == t.accounts[account_id] IN
         IF balance = 0 \/ unwrap_or_false(force)
         THEN [ok |-> TRUE, err |-> "", removed |-> TRUE, balance |-> balance,
               payout |-> unregister_payout,
               t |-> Token([a \in DOMAIN t.accounts \ {account_id} |-> t.accounts[a]],
                           t.total_supply)]
         ELSE [ok |-> FALSE,
               err |-> "Can't unregister the account with the positive balance without force",
               removed |-> FALSE, balance |-> balance, payout |-> 0, t |-> t]
    ELSE [ok |-> TRUE, err |-> "", removed |-> FALSE, balance |-> 0,
          payout |-> 0, t |-> t]

\* An unregister that pays the storage balance out before it looks the
\* account up, so that a caller without an account is paid too.
internal_storage_unregister_pays_anyone(t, account_id, force) ==
    IF account_id \in DOMAIN t.accounts
    THEN LET balance == t.accounts[account_id] IN
         IF balance = 0 \/ unwrap_or_false(force)
         THEN [ok |-> TRUE, err |-> "", removed |-> TRUE, balance |-> balance,
               payout |-> unregister_payout,
               t |-> Token([a \in DOMAIN t.accounts \ {account_id} |-> t.accounts[a]],
                           t.total_supply - balance)]
         ELSE [ok |-> FALSE,
               err |-> "Can't unregister the account with the positive balance without force",
               removed |-> FALSE, balance |-> balance, payout |-> 0, t |-> t]
    ELSE [ok |-> TRUE, err |-> "", removed |-> FALSE, balance |-> 0,
          payout |-> unregister_payout, t |-> t]

\* FungibleToken::internal_storage_unregister, after assert_one_yocto:
\* the new token state, whether an account was removed, and the payout.
internal_storage_unregister(t, account_id, force) ==
    IF account_id \in DOMAIN t.accounts
    THEN LET balance == t.accounts[account_id] IN
         IF balance = 0 \/ unwrap_or_false(force)
         THEN [ok |-> TRUE, err |-> "", removed |-> TRUE, balance |-> balance,
               payout |-> unregister_payout,
               t |-> Token([a \in DOMAIN t.accounts \ {account_id} |-> t.accounts[a]],
                           t.total_supply - balance)]
         ELSE [ok |-> FALSE,
               err |-> "Can't unregister the account with the positive balance without force",
               removed |-> FALSE, balance |-> balance, payout |-> 0, t |-> t]
    ELSE [ok |-> TRUE, err |-> "", removed |-> FALSE, balance |-> 0,
          payout |-> 0, t |-> t]

\* A storage_deposit that compares with <= and so refuses a deposit of
\* exactly the minimum.
storage_deposit_body_strict(t, account_id, amount) ==
    IF account_id \in DOMAIN t.accounts
    THEN [ok |-> TRUE, err |-> "", t |-> t, refund |-> amount]
    ELSE LET min_balance == storage_balance_bounds_min IN
         IF amount <= min_balance
         THEN [ok |-> FALSE,
               err |-> "The attached deposit is less than the minimum storage balance",
               t |-> t, refund |-> 0]
         ELSE LET r == internal_register_account(t, account_id) IN
              [ok |-> r.ok, err |-> r.err, t |-> r.t,
               refund |-> amount - min_balance]

\* A storage_deposit that checks the minimum before it looks whether the
\* account is registered already.
storage_deposit_body_min_first(t, account_id, amount) ==
    LET min_balance == storage_balance_bounds_min IN
    IF amount < min_balance
    THEN [ok |-> FALSE,
          err |-> "The attached deposit is less than the minimum storage balance",
          t |-> t, refund |-> 0]
    ELSE IF account_id \in DOMAIN t.accounts
    THEN [ok |-> TRUE, err |-> "", t |-> t, refund |-> amount]
    ELSE LET r == internal_register_account(t, account_id) IN
         [ok |-> r.ok, err |-> r.err, t |-> r.t,
          refund |-> amount - min_balance]

\* StorageManagement::storage_deposit for the account it resolves to:
\* the new token state and what the Promise sends back to the predecessor.
storage_deposit_body(t, account_id, amount) ==
    IF account_id \in DOMAIN t.accounts
    THEN [ok |-> TRUE, err |-> "", t |-> t, refund |-> amount]
    ELSE LET min_balance == storage_balance_bounds_min IN
         IF amount < min_balance
         THEN [ok |-> FALSE,
               err |-> "The attached deposit is less than the minimum storage balance",
               t |-> t, refund |-> 0]
         ELSE LET r == internal_register_account(t, account_id) IN
              [ok |-> r.ok, err |-> r.err, t |-> r.t,
               refund |-> amount - min_balance]

\* StorageManagement::storage_withdraw, after assert_one_yocto; amount is
\* NoAmount for None.
NoAmount == -1

\* A storage_withdraw that compares the amount with the total storage
\* balance instead of the available one.
storage_withdraw_body_total(t, account_id, amount) ==
    IF account_id \in DOMAIN t.accounts
    THEN IF amount # NoAmount /\ amount > storage_balance_bounds_min
         THEN Panicked("The amount is greater than the available storage balance", t)
         ELSE Returned(t)
    ELSE Panicked("The account is not registered", t)

storage_withdraw_body(t, account_id, amount) ==
    IF account_id \in DOMAIN t.accounts
    THEN IF amount # NoAmount /\ amount > 0
         THEN Panicked("The amount is greater than the available storage balance", t)
         ELSE Returned(t)
    ELSE Panicked("The account is not registered", t)

(* ---------------------- transfer with notification --------------------- *)

\* env::promise_result(0) as ft_resolve_transfer reads it: the hook failed,
\* or it returned bytes that parse as a U128 or do not.
PromiseResults ==
    {[status |-> "Failed", parsed |-> FALSE, value |-> 0],
     [status |-> "Successful", parsed |-> FALSE, value |-> 0]}
    \cup {[status |-> "Successful", parsed |-> TRUE, value |-> v] : v \in 0 .. U128_MAX}

\* A callback that treats every promise result as a rejection.
unused_amount_all(amount, result) == amount

\* A callback that takes a failed hook for an acceptance.
unused_amount_failed_accepts(amount, result) ==
    IF result.status = "Successful"
    THEN IF result.parsed THEN Min(amount, result.value) ELSE amount
    ELSE 0

\* The unused amount ft_resolve_transfer derives from the promise result.
unused_amount_of(amount, result) ==
    IF result.status = "Successful"
    THEN IF result.parsed THEN Min(amount, result.value) ELSE amount
    ELSE amount

\* A callback that reports amount - unused whatever it managed to refund.
internal_ft_resolve_transfer_reports_unused(t, sender_id, receiver_id, amount, result) ==
    LET unused_amount == unused_amount_of(amount, result)
        receiver_balance == IF receiver_id \in DOMAIN t.accounts
                            THEN t.accounts[receiver_id] ELSE 0
        refund_amount == Min(receiver_balance, unused_amount)
    IN  IF unused_amount > 0 /\ receiver_balance > 0
        THEN LET debited == [t.accounts EXCEPT
                                ![receiver_id] = receiver_balance - refund_amount]
             IN  IF sender_id \in DOMAIN debited
                 THEN [t |-> Token([debited EXCEPT ![sender_id] = @ + refund_amount],
                                   t.total_supply),
                       used |-> amount - unused_amount, burned |-> 0,
                       unused |-> unused_amount, clawback |-> refund_amount]
                 ELSE [t |-> Token(debited, t.total_supply - refund_amount),
                       used |-> amount - unused_amount, burned |-> refund_amount,
                       unused |-> unused_amount, clawback |-> refund_amount]
        ELSE [t |-> t, used |-> amount - unused_amount, burned |-> 0,
              unused |-> unused_amount, clawback |-> 0]

\* A callback that claws back the whole unused amount whatever the receiver
\* still holds.
internal_ft_resolve_transfer_uncapped(t, sender_id, receiver_id, amount, result) ==
    LET unused_amount == unused_amount_of(amount, result)
        receiver_balance == IF receiver_id \in DOMAIN t.accounts
                            THEN t.accounts[receiver_id] ELSE 0
        refund_amount == unused_amount
    IN  IF unused_amount > 0 /\ receiver_balance > 0
        THEN LET debited == [t.accounts EXCEPT
                                ![receiver_id] = receiver_balance - refund_amount]
             IN  IF sender_id \in DOMAIN debited
                 THEN [t |-> Token([debited EXCEPT ![sender_id] = @ + refund_amount],
                                   t.total_supply),
                       used |-> amount - refund_amount, burned |-> 0,
                       unused |-> unused_amount, clawback |-> refund_amount]
                 ELSE [t |-> Token(debited, t.total_supply - refund_amount),
                       used |-> amount, burned |-> refund_amount,
                       unused |-> unused_amount, clawback |-> refund_amount]
        ELSE [t |-> t, used |-> amount, burned |-> 0,
              unused |-> unused_amount, clawback |-> 0]

\* A callback that, finding the sender's account deleted, takes the refund
\* from the receiver without lowering the total supply.
internal_ft_resolve_transfer_forgets_burn(t, sender_id, receiver_id, amount, result) ==
    LET unused_amount == unused_amount_of(amount, result)
        receiver_balance == IF receiver_id \in DOMAIN t.accounts
                            THEN t.accounts[receiver_id] ELSE 0
        refund_amount == Min(receiver_balance, unused_amount)
    IN  IF unused_amount > 0 /\ receiver_balance > 0
        THEN LET debited == [t.accounts EXCEPT
                                ![receiver_id] = receiver_balance - refund_amount]
             IN  IF sender_id \in DOMAIN debited
                 THEN [t |-> Token([debited EXCEPT ![sender_id] = @ + refund_amount],
                                   t.total_supply),
                       used |-> amount - refund_amount, burned |-> 0,
                       unused |-> unused_amount, clawback |-> refund_amount]
                 ELSE [t |-> Token(debited, t.total_supply),
                       used |-> amount, burned |-> refund_amount,
                       unused |-> unused_amount, clawback |-> refund_amount]
        ELSE [t |-> t, used |-> amount, burned |-> 0,
              unused |-> unused_amount, clawback |-> 0]

\* A callback that reads the sender's balance with unwrap_or(0) and inserts
\* the refund, so that a deleted sender gets an entry again.
internal_ft_resolve_transfer_recreates(t, sender_id, receiver_id, amount, result) ==
    LET unused_amount == unused_amount_of(amount, result)
        receiver_balance == IF receiver_id \in DOMAIN t.accounts
                            THEN t.accounts[receiver_id] ELSE 0
        refund_amount == Min(receiver_balance, unused_amount)
    IN  IF unused_amount > 0 /\ receiver_balance > 0
        THEN LET debited == [t.accounts EXCEPT
                                ![receiver_id] = receiver_balance - refund_amount]
             IN  [t |-> Token([a \in DOMAIN debited \cup {sender_id} |->
                                  IF a = sender_id
                                  THEN balance_or_zero(debited, sender_id)
                                          + refund_amount
                                  ELSE debited[a]],
                              t.total_supply),
                  used |-> amount - refund_amount, burned |-> 0,
                  unused |-> unused_amount, clawback |-> refund_amount]
        ELSE [t |-> t, used |-> amount, burned |-> 0,
              unused |-> unused_amount, clawback |-> 0]

\* FungibleToken::internal_ft_resolve_transfer: (used_amount, burned_amount)
\* and the new token state.
internal_ft_resolve_transfer(t, sender_id, receiver_id, amount, result) ==
    LET unused_amount == unused_amount_of(amount, result)
        receiver_balance == IF receiver_id \in DOMAIN t.accounts
                            THEN t.accounts[receiver_id] ELSE 0
        refund_amount == Min(receiver_balance, unused_amount)
    IN  IF unused_amount > 0 /\ receiver_balance > 0
        THEN LET debited == [t.accounts EXCEPT
                                ![receiver_id] = receiver_balance - refund_amount]
             IN  IF sender_id \in DOMAIN debited
                 THEN [t |-> Token([debited EXCEPT ![sender_id] = @ + refund_amount],
                                   t.total_supply),
                       used |-> amount - refund_amount, burned |-> 0,
                       unused |-> unused_amount, clawback |-> refund_amount]
                 ELSE [t |-> Token(debited, t.total_supply - refund_amount),
                       used |-> amount, burned |-> refund_amount,
                       unused |-> unused_amount, clawback |-> refund_amount]
        ELSE [t |-> t, used |-> amount, burned |-> 0,
              unused |-> unused_amount, clawback |-> 0]

\* A slot of the promise table: idle, or the arguments the callback of an
\* ft_transfer_call was scheduled with, while the receiver's hook runs
\* (AwaitingReceipt) and once it has ended (ReceiptKnown).
IdleSlot == [phase |-> "Idle", sender_id |-> NoAccount, receiver_id |-> NoAccount,
             amount |-> 0]

\* The slots of the promise table.
Slots == DOMAIN inflight

IdleSlots == {i \in Slots : inflight[i].phase = "Idle"}

(* --------------------------- receipts ---------------------------------- *)

\* The last receipt that returned: its method, the amount and the attached
\* deposit it was called with, the unused amount a callback read, the value
\* it returned and what it sent back to its predecessor.  A receipt that
\* panics is rolled back by the runtime and leaves no trace in the state.
Receipt(op, amount, deposit, unused, ret, refund) ==
    [op |-> op, amount |-> amount, deposit |-> deposit, unused |-> unused,
     ret |-> ret, refund |-> refund]

NoReceipt == Receipt("none", 0, 0, 0, 0, 0)

returned_by(ok, receipt) == IF ok THEN receipt ELSE last

Deposits == 0 .. (storage_balance_bounds_min + MaxExtraDeposit)

\* Deposits tried on the methods guarded by assert_one_yocto.
YoctoDeposits == {0, ONE_YOCTO}

Amounts == 0 .. U128_MAX

\* What the predecessor gets back from a receipt: the runtime returns the
\* attached deposit of a call that panicked; a call that returned sends what
\* its own Promise transfers.
refund_of(ok, deposit, sent) == IF ok THEN sent ELSE deposit

\* near_bindgen's prologue of every method but the initializers
\* (PanicOnDefault), then the method's own result.
with_state(r) ==
    IF ~state_exists
    THEN [r EXCEPT !.ok = FALSE, !.err = "The contract is not initialized",
                   !.t = CurrentToken]
    ELSE r

\* assert_one_yocto, then the rest of the method.
assert_one_yocto(deposit, r) ==
    IF deposit # ONE_YOCTO
    THEN [r EXCEPT !.ok = FALSE,
                   !.err = "Requires attached deposit of exactly 1 yoctoNEAR",
                   !.t = CurrentToken]
    ELSE r

Init ==
    /\ state_exists = FALSE
    /\ accounts = EmptyMap
    /\ total_supply = 0
    /\ metadata = "none"
    /\ inflight = [i \in 1 .. MaxInFlight |-> IdleSlot]
    /\ last = NoReceipt

\* An initializer that credits the owner without registering it first, as
\* a LookupMap insert would: the supply is left at zero.
new_body_unminted(owner_id, supply, metadata_valid) ==
    IF state_exists THEN Panicked("Already initialized", CurrentToken)
    ELSE IF ~metadata_valid THEN Panicked("Invalid metadata", CurrentToken)
    ELSE Returned(Token([a \in {owner_id} |-> supply], 0))

\* An initializer without the check that the contract has no state yet.
new_body_again(owner_id, supply, metadata_valid) ==
    IF ~metadata_valid THEN Panicked("Invalid metadata", CurrentToken)
    ELSE LET r == internal_register_account(Token(EmptyMap, 0), owner_id) IN
         IF ~r.ok THEN Panicked(r.err, CurrentToken)
         ELSE LET d == internal_deposit(r.t, owner_id, supply) IN
              IF ~d.ok THEN Panicked(d.err, CurrentToken) ELSE d

\* Contract::new: the result of its body on the given arguments.
new_body(owner_id, supply, metadata_valid) ==
    IF state_exists THEN Panicked("Already initialized", CurrentToken)
    ELSE IF ~metadata_valid THEN Panicked("Invalid metadata", CurrentToken)
    ELSE LET r == internal_register_account(Token(EmptyMap, 0), owner_id) IN
         IF ~r.ok THEN Panicked(r.err, CurrentToken)
         ELSE LET d == internal_deposit(r.t, owner_id, supply) IN
              IF ~d.ok THEN Panicked(d.err, CurrentToken) ELSE d

\* The state an initializer leaves.
Initialize(op, r, meta) ==
    /\ accounts' = r.t.accounts
    /\ total_supply' = r.t.total_supply
    /\ state_exists' = (state_exists \/ r.ok)
    /\ metadata' = IF r.ok THEN meta ELSE metadata
    /\ last' = returned_by(r.ok, Receipt(op, r.t.total_supply, 0, 0, 0, 0))
    /\ UNCHANGED inflight

\* Contract::new
NewOp(owner_id, supply, metadata_valid) ==
    Initialize("new", new_body(owner_id, supply, metadata_valid), "given")

New ==
    \E owner_id \in AccountIds, supply \in Amounts, metadata_valid \in BOOLEAN :
        NewOp(owner_id, supply, metadata_valid)

\* Contract::new_default_meta
NewDefaultMetaOp(owner_id, supply) ==
    Initialize("new_default_meta", new_body(owner_id, supply, TRUE), "default")

NewDefaultMeta ==
    \E owner_id \in AccountIds, supply \in Amounts :
        NewDefaultMetaOp(owner_id, supply)

\* ft_transfer: the result of its body.
ft_transfer_body(sender_id, receiver_id, amount, deposit) ==
    with_state(assert_one_yocto(deposit,
        internal_transfer(CurrentToken, sender_id, receiver_id, amount)))

\* ft_transfer (impl_fungible_token_core!)
FtTransferOp(sender_id, receiver_id, amount, deposit) ==
    LET r == ft_transfer_body(sender_id, receiver_id, amount, deposit) IN
    /\ accounts' = r.t.accounts
    /\ total_supply' = r.t.total_supply
    /\ last' = returned_by(r.ok, Receipt("ft_transfer", amount, deposit, 0, 0, 0))
    /\ UNCHANGED <<state_exists, metadata, inflight>>

FtTransfer ==
    \E sender_id \in AccountIds, receiver_id \in AccountIds,
       amount \in Amounts, deposit \in YoctoDeposits :
        FtTransferOp(sender_id, receiver_id, amount, deposit)

\* ft_transfer_call: the result of its body up to the scheduling of the
\* promise; enough_gas is env::prepaid_gas() > GAS_FOR_FT_TRANSFER_CALL.
ft_transfer_call_body(sender_id, receiver_id, amount, deposit, enough_gas) ==
    with_state(assert_one_yocto(deposit,
        IF ~enough_gas THEN Panicked("More gas is required", CurrentToken)
        ELSE internal_transfer(CurrentToken, sender_id, receiver_id, amount)))

\* ft_transfer_call (impl_fungible_token_core!): applies the transfer, then
\* schedules ft_on_transfer on the receiver and ft_resolve_transfer after it.
FtTransferCallOp(sender_id, receiver_id, amount, deposit, enough_gas) ==
    LET r == ft_transfer_call_body(sender_id, receiver_id, amount, deposit,
                                   enough_gas) IN
    /\ r.ok => IdleSlots # {}
    /\ accounts' = r.t.accounts
    /\ total_supply' = r.t.total_supply
    /\ inflight' =
         IF r.ok
         THEN LET i == CHOOSE j \in IdleSlots : \A k \in IdleSlots : j <= k IN
              [inflight EXCEPT ![i] =
                  [phase |-> "AwaitingReceipt", sender_id |-> sender_id,
                   receiver_id |-> receiver_id, amount |-> amount]]
         ELSE inflight
    /\ last' = returned_by(r.ok, Receipt("ft_transfer_call", amount, deposit, 0, 0, 0))
    /\ UNCHANGED <<state_exists, metadata>>

FtTransferCall ==
    \E sender_id \in AccountIds, receiver_id \in AccountIds,
       amount \in Amounts, deposit \in YoctoDeposits, enough_gas \in BOOLEAN :
        FtTransferCallOp(sender_id, receiver_id, amount, deposit, enough_gas)

\* The receiver's ft_on_transfer ends (it returns, or it fails): from now on
\* the callback can run.  It is a receipt of the receiver, not of this
\* contract.
FtOnTransferOp(i) ==
    /\ inflight[i].phase = "AwaitingReceipt"
    /\ inflight' = [inflight EXCEPT ![i].phase = "ReceiptKnown"]
    /\ UNCHANGED <<state_exists, accounts, total_supply, metadata, last>>

FtOnTransfer == \E i \in Slots : FtOnTransferOp(i)

\* A callback that does not wait for the hook's receipt.
FtResolveTransferOp_unordered(i, result) ==
    /\ inflight[i].phase # "Idle"
    /\ LET p == inflight[i]
           r == internal_ft_resolve_transfer(CurrentToken, p.sender_id,
                    p.receiver_id, p.amount, result)
       IN  /\ accounts' = r.t.accounts
           /\ total_supply' = r.t.total_supply
           /\ last' = Receipt("ft_resolve_transfer", p.amount, 0, r.unused,
                               r.used, 0)
    /\ inflight' = [inflight EXCEPT ![i] = IdleSlot]
    /\ UNCHANGED <<state_exists, metadata>>

\* ft_resolve_transfer (impl_fungible_token_core!): the private callback;
\* result is what env::promise_result(0) gives it.
FtResolveTransferOp(i, result) ==
    /\ inflight[i].phase = "ReceiptKnown"
    /\ LET p == inflight[i]
           r == internal_ft_resolve_transfer(CurrentToken, p.sender_id,
                    p.receiver_id, p.amount, result)
       IN  /\ accounts' = r.t.accounts
           /\ total_supply' = r.t.total_supply
           /\ last' = Receipt("ft_resolve_transfer", p.amount, 0, r.unused,
                               r.used, 0)
    /\ inflight' = [inflight EXCEPT ![i] = IdleSlot]
    /\ UNCHANGED <<state_exists, metadata>>

FtResolveTransfer ==
    \E i \in Slots, result \in PromiseResults : FtResolveTransferOp(i, result)

\* storage_deposit: the result of the call; account_id is the Option.
storage_deposit_call(predecessor, account_id, deposit) ==
    LET target == IF account_id = NoAccount THEN predecessor ELSE account_id IN
    with_state(storage_deposit_body(CurrentToken, target, deposit))

\* storage_deposit (impl_fungible_token_storage!); registration_only is
\* unused by the implementation.  It returns the StorageBalance's total.
StorageDepositOp(predecessor, account_id, deposit) ==
    LET target == IF account_id = NoAccount THEN predecessor ELSE account_id
        r == storage_deposit_call(predecessor, account_id, deposit)
    IN  /\ accounts' = r.t.accounts
        /\ total_supply' = r.t.total_supply
        /\ last' = returned_by(r.ok,
                       Receipt("storage_deposit", 0, deposit, 0,
                               internal_storage_balance_of(r.t, target).total,
                               r.refund))
        /\ UNCHANGED <<state_exists, metadata, inflight>>

StorageDeposit ==
    \E predecessor \in AccountIds, account_id \in AccountIds \cup {NoAccount},
       deposit \in Deposits :
        StorageDepositOp(predecessor, account_id, deposit)

\* storage_withdraw: the result of the call.
storage_withdraw_call(predecessor, amount, deposit) ==
    with_state(assert_one_yocto(deposit,
        storage_withdraw_body(CurrentToken, predecessor, amount)))

\* storage_withdraw (impl_fungible_token_storage!)
StorageWithdrawOp(predecessor, amount, deposit) ==
    LET r == storage_withdraw_call(predecessor, amount, deposit) IN
    /\ last' = returned_by(r.ok,
                   Receipt("storage_withdraw", 0, deposit, 0,
                           internal_storage_balance_of(r.t, predecessor).total, 0))
    /\ UNCHANGED <<state_exists, accounts, total_supply, metadata, inflight>>

StorageWithdraw ==
    \E predecessor \in AccountIds, amount \in Amounts \cup {NoAmount},
       deposit \in YoctoDeposits :
        StorageWithdrawOp(predecessor, amount, deposit)

\* storage_unregister: the result of the call.
storage_unregister_call(predecessor, force, deposit) ==
    with_state(assert_one_yocto(deposit,
        internal_storage_unregister(CurrentToken, predecessor, force)))

\* storage_unregister (impl_fungible_token_storage!), with on_account_closed
\* (which only logs) after a removal.  The receipt's ret is 1 for true and
\* 0 for false, its amount the balance the account had.
StorageUnregisterOp(predecessor, force, deposit) ==
    LET r == storage_unregister_call(predecessor, force, deposit) IN
    /\ accounts' = r.t.accounts
    /\ total_supply' = r.t.total_supply
    /\ last' = returned_by(r.ok,
                   Receipt("storage_unregister", r.balance, deposit, 0,
                           IF r.removed THEN 1 ELSE 0, r.payout))
    /\ UNCHANGED <<state_exists, metadata, inflight>>

StorageUnregister ==
    \E predecessor \in AccountIds, force \in ForceArgs, deposit \in YoctoDeposits :
        StorageUnregisterOp(predecessor, force, deposit)

Next ==
    \/ New
    \/ NewDefaultMeta
    \/ FtTransfer
    \/ FtTransferCall
    \/ FtOnTransfer
    \/ FtResolveTransfer
    \/ StorageDeposit
    \/ StorageWithdraw
    \/ StorageUnregister

Spec == Init /\ [][Next]_vars

\* The runtime executes every receipt it has scheduled: the receiver's hook
\* ends, and the callback then runs.
Fairness ==
    \A i \in 1 .. MaxInFlight :
        /\ WF_vars(FtOnTransferOp(i))
        /\ WF_vars(\E result \in PromiseResults : FtResolveTransferOp(i, result))

SpecFair == Spec /\ Fairness

\* The contract with room for one more notified transfer in flight, driven
\* by well-formed calls only: the initializer with valid metadata, the
\* guarded methods with their one yocto and enough gas, storage_deposit for
\* the caller with exactly the minimum.  The calls left out are those that
\* panic on their arguments alone (and are rolled back) and those that
\* differ only in the deposit refunded.
InitConcurrent ==
    /\ state_exists = FALSE
    /\ accounts = EmptyMap
    /\ total_supply = 0
    /\ metadata = "none"
    /\ inflight = [i \in 1 .. (MaxInFlight + 1) |-> IdleSlot]
    /\ last = NoReceipt

NextConcurrent ==
    \/ \E owner_id \in AccountIds, supply \in Amounts : NewOp(owner_id, supply, TRUE)
    \/ \E sender_id \in AccountIds, receiver_id \in AccountIds, amount \in Amounts :
          FtTransferOp(sender_id, receiver_id, amount, ONE_YOCTO)
    \/ \E sender_id \in AccountIds, receiver_id \in AccountIds, amount \in Amounts :
          FtTransferCallOp(sender_id, receiver_id, amount, ONE_YOCTO, TRUE)
    \/ FtOnTransfer
    \/ FtResolveTransfer
    \/ \E predecessor \in AccountIds :
          StorageDepositOp(predecessor, NoAccount, storage_balance_bounds_min)
    \/ \E predecessor \in AccountIds, force \in ForceArgs :
          StorageUnregisterOp(predecessor, force, ONE_YOCTO)

SpecConcurrent == InitConcurrent /\ [][NextConcurrent]_vars

(* ------------------------------ claims --------------------------------- *)

\* C1: in every reachable state (after initialization, after every receipt
\* of every public method, and also while a notified transfer is in flight)
\* total_supply equals the sum of the balances of the registered accounts.
C1_Conservation == total_supply = SumBalances(accounts)

\* C1 witness: a callback has clawed tokens back while several accounts are
\* registered and supply is in circulation.
C1_Witness ==
    /\ last.op = "ft_resolve_transfer"
    /\ last.unused > 0
    /\ last.ret < last.amount
    /\ total_supply > 0
    /\ Cardinality(DOMAIN accounts) >= 2

\* The state an initializer must leave for the given owner and supply.
FreshLedger(acc, ts, owner_id, supply) ==
    /\ DOMAIN acc = {owner_id}
    /\ balance_or_zero(acc, owner_id) = supply
    /\ ts = supply
    /\ \A x \in AccountIds \ {owner_id} : balance_or_zero(acc, x) = 0

\* C2: an initialization that succeeds with (owner, total_supply) leaves the
\* owner as the only registered account, holding total_supply, with
\* ft_total_supply equal to it and every other balance 0.
C2_Initialization ==
    [][last'.op \in {"new", "new_default_meta"} /\ ~state_exists =>
          \A owner_id \in AccountIds, supply \in Amounts :
              /\ \A metadata_valid \in BOOLEAN :
                    (NewOp(owner_id, supply, metadata_valid)
                        /\ new_body(owner_id, supply, metadata_valid).ok)
                    => FreshLedger(accounts', total_supply', owner_id, supply)
              /\ (NewDefaultMetaOp(owner_id, supply)
                        /\ new_body(owner_id, supply, TRUE).ok)
                    => FreshLedger(accounts', total_supply', owner_id, supply)]_vars

\* C2 witness: the contract has just been initialized with a positive supply.
C2_Witness ==
    /\ last.op \in {"new", "new_default_meta"}
    /\ state_exists
    /\ total_supply > 0
    /\ \E owner_id \in AccountIds :
          FreshLedger(accounts, ft_total_supply, owner_id, last.amount)

\* The balances of all accounts but the given ones, and the registry, are
\* the same in the two maps.
SameElsewhere(acc1, acc2, touched) ==
    /\ DOMAIN acc1 = DOMAIN acc2
    /\ \A x \in AccountIds \ touched :
          balance_or_zero(acc1, x) = balance_or_zero(acc2, x)

\* The effect of moving amount from sender to receiver.
Moved(acc1, acc2, sender_id, receiver_id, amount) ==
    /\ sender_id \in DOMAIN acc1 /\ receiver_id \in DOMAIN acc1
    /\ acc2[sender_id] = acc1[sender_id] - amount
    /\ acc2[receiver_id] = acc1[receiver_id] + amount
    /\ SameElsewhere(acc1, acc2, {sender_id, receiver_id})

\* C3: an ft_transfer that succeeds (both accounts registered, sender #
\* receiver, amount > 0, sender's balance >= amount) lowers the sender's
\* balance by exactly amount, raises the receiver's by exactly amount, and
\* leaves total_supply, every other balance and the registry unchanged.
C3_TransferEffect ==
    [][last'.op = "ft_transfer" /\ vars' # vars =>
          \A sender_id \in AccountIds, receiver_id \in AccountIds, amount \in Amounts :
              (FtTransferOp(sender_id, receiver_id, amount, ONE_YOCTO)
                  /\ ft_transfer_body(sender_id, receiver_id, amount, ONE_YOCTO).ok)
              => /\ sender_id # receiver_id /\ amount > 0
                 /\ balance_or_zero(accounts, sender_id) >= amount
                 /\ Moved(accounts, accounts', sender_id, receiver_id, amount)
                 /\ total_supply' = total_supply]_vars

\* C3 witness: an ft_transfer of a positive amount has just returned and
\* left tokens with two accounts, three being registered.
C3_Witness ==
    /\ last.op = "ft_transfer"
    /\ last.amount > 0
    /\ Cardinality(DOMAIN accounts) = 3
    /\ Cardinality({a \in DOMAIN accounts : accounts[a] > 0}) = 2

\* The panic messages of the transfer's checks.
SelfTransfer == "Sender and receiver should be different"

ZeroAmount == "The amount should be a positive number"

InsufficientBalance == "The account doesn't have enough balance"

AccountNotRegistered == "The account is not registered"

\* A call panicked with the given message and left the token state as it was.
Rejected(r, msg) == ~r.ok /\ r.err = msg /\ r.t = CurrentToken

\* C4: an ft_transfer (called as its interface requires, with one yocto
\* attached) panics with SelfTransfer when sender = receiver, else with
\* ZeroAmount when amount = 0, else with InsufficientBalance when the
\* registered sender's balance is below amount; in each case balances,
\* total_supply and the registry are left unchanged.
C4_TransferRejections ==
    state_exists =>
        \A sender_id \in AccountIds, receiver_id \in AccountIds, amount \in Amounts :
            LET r == ft_transfer_body(sender_id, receiver_id, amount, ONE_YOCTO) IN
            /\ sender_id = receiver_id => Rejected(r, SelfTransfer)
            /\ sender_id # receiver_id /\ amount = 0 => Rejected(r, ZeroAmount)
            /\ (sender_id # receiver_id /\ amount > 0
                    /\ sender_id \in DOMAIN accounts
                    /\ accounts[sender_id] < amount)
               => Rejected(r, InsufficientBalance)

\* C4 witness: after a transfer, a state in which transfers of all three
\* kinds are refused: to oneself, of zero, and of more than the sender (who
\* holds tokens) has.
C4_Witness ==
    /\ last.op = "ft_transfer"
    /\ \E sender_id \in DOMAIN accounts, receiver_id \in DOMAIN accounts,
          amount \in Amounts :
          /\ sender_id # receiver_id
          /\ 0 < accounts[sender_id] /\ accounts[sender_id] < amount
          /\ Rejected(ft_transfer_body(sender_id, receiver_id, amount, ONE_YOCTO),
                      InsufficientBalance)
          /\ Rejected(ft_transfer_body(sender_id, sender_id, amount, ONE_YOCTO),
                      SelfTransfer)
          /\ Rejected(ft_transfer_body(sender_id, receiver_id, 0, ONE_YOCTO),
                      ZeroAmount)

\* C5: an ft_transfer or ft_transfer_call whose sender or receiver is not
\* registered always panics, whatever is attached, and leaves balances,
\* total_supply and the registry unchanged: no entry is created for the
\* unregistered party.
C5_RegistrationGating ==
    \A sender_id \in AccountIds, receiver_id \in AccountIds, amount \in Amounts,
       deposit \in YoctoDeposits :
        (sender_id \notin DOMAIN accounts \/ receiver_id \notin DOMAIN accounts)
        => /\ LET r == ft_transfer_body(sender_id, receiver_id, amount, deposit) IN
              ~r.ok /\ r.t = CurrentToken
           /\ \A enough_gas \in BOOLEAN :
                LET r == ft_transfer_call_body(sender_id, receiver_id, amount,
                                               deposit, enough_gas) IN
                ~r.ok /\ r.t = CurrentToken

\* C5 witness: an initialized contract in which a funded registered account
\* faces an unregistered one, and the transfer between them is refused in
\* both directions for want of registration.
C5_Witness ==
    /\ state_exists
    /\ \E a \in DOMAIN accounts, b \in AccountIds \ DOMAIN accounts :
          /\ accounts[a] > 0
          /\ Rejected(ft_transfer_body(a, b, accounts[a], ONE_YOCTO),
                      AccountNotRegistered)
          /\ Rejected(ft_transfer_body(b, a, accounts[a], ONE_YOCTO),
                      AccountNotRegistered)
          /\ Rejected(ft_transfer_call_body(a, b, accounts[a], ONE_YOCTO, TRUE),
                      AccountNotRegistered)

\* storage_deposit's target: the given account, or the predecessor.
TargetOf(predecessor, account_id) ==
    IF account_id = NoAccount THEN predecessor ELSE account_id

InsufficientStorageDeposit ==
    "The attached deposit is less than the minimum storage balance"

\* C6: storage_deposit for an account that is not yet registered: with a
\* deposit below min_bound it panics, registers nothing and the whole
\* deposit goes back; with exactly min_bound it registers the account with
\* balance 0 and refunds 0; with min_bound + k it registers the account,
\* keeps exactly min_bound and refunds exactly k.
C6_StorageAccounting ==
    state_exists =>
        \A predecessor \in AccountIds, account_id \in AccountIds \cup {NoAccount},
           deposit \in Deposits :
            LET target == TargetOf(predecessor, account_id)
                r == storage_deposit_call(predecessor, account_id, deposit)
                refund == refund_of(r.ok, deposit, r.refund)
            IN  target \notin DOMAIN accounts =>
                  /\ deposit < storage_balance_bounds_min =>
                        /\ Rejected(r, InsufficientStorageDeposit)
                        /\ refund = deposit
                  /\ deposit >= storage_balance_bounds_min =>
                        /\ r.ok
                        /\ DOMAIN r.t.accounts = DOMAIN accounts \cup {target}
                        /\ r.t.accounts[target] = 0
                        /\ \A x \in DOMAIN accounts : r.t.accounts[x] = accounts[x]
                        /\ r.t.total_supply = total_supply
                        /\ refund = deposit - storage_balance_bounds_min
                        /\ internal_storage_balance_of(r.t, target).total
                              = storage_balance_bounds_min

\* C6 witness: a storage_deposit with more than the minimum attached has
\* just registered an account and refunded the excess, and a deposit one
\* short of the minimum is refused for an account still unregistered.
C6_Witness ==
    /\ last.op = "storage_deposit"
    /\ last.deposit > storage_balance_bounds_min
    /\ last.refund = last.deposit - storage_balance_bounds_min
    /\ last.ret = storage_balance_bounds_min
    /\ \E a \in DOMAIN accounts : accounts[a] = 0
    /\ \E b \in AccountIds \ DOMAIN accounts :
          Rejected(storage_deposit_call(b, NoAccount, storage_balance_bounds_min - 1),
                   InsufficientStorageDeposit)

\* C6 witness of the boundary: a deposit of exactly the minimum has just
\* registered an account and refunded nothing.
C6_WitnessExact ==
    /\ last.op = "storage_deposit"
    /\ last.deposit = storage_balance_bounds_min
    /\ last.refund = 0
    /\ Cardinality(DOMAIN accounts) >= 2

NonZeroBalance ==
    "Can't unregister the account with the positive balance without force"

\* C7: storage_unregister with force absent or false, called (with the one
\* yocto it requires) by a registered account that holds tokens, panics
\* with NonZeroBalance; the account stays registered with its balance and
\* its storage balance, total_supply is unchanged and nothing but the
\* attached deposit goes back.
C7_UnregisterNeedsZeroBalance ==
    state_exists =>
        \A predecessor \in DOMAIN accounts, force \in {"absent", "false"} :
            LET r == storage_unregister_call(predecessor, force, ONE_YOCTO) IN
            accounts[predecessor] > 0 =>
                /\ Rejected(r, NonZeroBalance)
                /\ predecessor \in DOMAIN r.t.accounts
                /\ r.t.accounts[predecessor] = accounts[predecessor]
                /\ r.t.total_supply = total_supply
                /\ internal_storage_balance_of(r.t, predecessor).total
                      = internal_storage_balance_of(CurrentToken, predecessor).total
                /\ refund_of(r.ok, ONE_YOCTO, r.payout) = ONE_YOCTO

\* C7 witness: an account that received tokens by a transfer is refused
\* the unregistration, with force absent and with force false.
C7_Witness ==
    /\ last.op = "ft_transfer"
    /\ \E a \in DOMAIN accounts :
          /\ accounts[a] > 0
          /\ accounts[a] < total_supply
          /\ Rejected(storage_unregister_call(a, "absent", ONE_YOCTO), NonZeroBalance)
          /\ Rejected(storage_unregister_call(a, "false", ONE_YOCTO), NonZeroBalance)

\* C8: storage_unregister with force = true, called by a registered account
\* with balance b > 0, removes the account's entry, lowers total_supply by
\* exactly b, leaves every other balance unchanged, returns true, and pays
\* the caller the storage balance back (on top of the yocto it attached).
C8_ForcedUnregister ==
    [][last'.op = "storage_unregister" /\ vars' # vars =>
          \A predecessor \in DOMAIN accounts :
              (StorageUnregisterOp(predecessor, "true", ONE_YOCTO)
                  /\ accounts[predecessor] > 0)
              => /\ DOMAIN accounts' = DOMAIN accounts \ {predecessor}
                 /\ total_supply' = total_supply - accounts[predecessor]
                 /\ \A x \in DOMAIN accounts' : accounts'[x] = accounts[x]
                 /\ last'.ret = 1
                 /\ last'.refund - last'.deposit = storage_balance_bounds_min
                 /\ last'.amount = accounts[predecessor]]_vars

\* C8 witness: a forced unregistration has just burned a positive balance
\* while another account still holds tokens.
C8_Witness ==
    /\ last.op = "storage_unregister"
    /\ last.ret = 1
    /\ last.amount > 0
    /\ last.refund = storage_balance_bounds_min + ONE_YOCTO
    /\ total_supply > 0

\* C9 as stated: storage_unregister called by an account that is not
\* registered fails with AccountNotRegistered and changes no state.
C9_UnregisterUnknownFails ==
    state_exists =>
        \A predecessor \in AccountIds \ DOMAIN accounts, force \in ForceArgs :
            Rejected(storage_unregister_call(predecessor, force, ONE_YOCTO),
                     AccountNotRegistered)

\* C9 as amended: storage_unregister called (with the one yocto it requires)
\* by an account that is not registered does not fail: it returns false,
\* pays nothing out and changes no state.
C9_UnregisterUnknownReturnsFalse ==
    state_exists =>
        \A predecessor \in AccountIds \ DOMAIN accounts, force \in ForceArgs :
            LET r == storage_unregister_call(predecessor, force, ONE_YOCTO) IN
            /\ r.ok
            /\ ~r.removed
            /\ r.payout = 0
            /\ r.t = CurrentToken

\* C9 witness: a storage_unregister has just returned false, with nothing
\* paid out, while an account holds the supply.
C9_Witness ==
    /\ last.op = "storage_unregister"
    /\ last.ret = 0
    /\ last.refund = 0
    /\ total_supply > 0
    /\ AccountIds \ DOMAIN accounts # {}

\* The promise result of a hook that returned "0": nothing unused.
FullyAccepted == [status |-> "Successful", parsed |-> TRUE, value |-> 0]

\* C10: a notified transfer that the receiver's hook accepts in full: the
\* call debits the sender and credits the receiver by exactly amount; the
\* callback that reads zero unused applies no reversal (no balance and no
\* supply changes) and reports amount to the caller.
C10_FullAcceptance ==
    [][/\ (last'.op = "ft_transfer_call" /\ vars' # vars) =>
            \A sender_id \in AccountIds, receiver_id \in AccountIds,
               amount \in Amounts :
                (FtTransferCallOp(sender_id, receiver_id, amount, ONE_YOCTO, TRUE)
                    /\ ft_transfer_call_body(sender_id, receiver_id, amount,
                                             ONE_YOCTO, TRUE).ok)
                => /\ Moved(accounts, accounts', sender_id, receiver_id, amount)
                   /\ total_supply' = total_supply
                   /\ \E i \in Slots :
                         /\ inflight[i].phase = "Idle"
                         /\ inflight'[i] = [phase |-> "AwaitingReceipt",
                                            sender_id |-> sender_id,
                                            receiver_id |-> receiver_id,
                                            amount |-> amount]
       /\ (last'.op = "ft_resolve_transfer" /\ vars' # vars) =>
            \A i \in Slots :
                FtResolveTransferOp(i, FullyAccepted)
                => /\ accounts' = accounts
                   /\ total_supply' = total_supply
                   /\ last'.unused = 0
                   /\ last'.ret = inflight[i].amount
                   /\ last'.amount = inflight[i].amount]_vars

\* C10 witness: the callback of a notified transfer has just reported the
\* whole amount as transferred, the hook having left nothing unused, and
\* the receiver holds tokens.
C10_Witness ==
    /\ last.op = "ft_resolve_transfer"
    /\ last.unused = 0
    /\ last.amount > 0
    /\ last.ret = last.amount
    /\ Cardinality({a \in DOMAIN accounts : accounts[a] > 0}) >= 1
    /\ Cardinality(DOMAIN accounts) >= 2

\* The hook rejects the whole transfer: it fails, or reports at least the
\* whole amount unused.
Rejecting(amount, result) ==
    \/ result.status = "Failed"
    \/ result.status = "Successful" /\ result.parsed /\ result.value >= amount

\* C11 as first stated: whatever other receipts ran between the transfer and
\* its callback, the callback of a rejected transfer moves the whole amount
\* back from the receiver to the sender and reports 0 transferred.
C11_RejectionAlwaysRestores ==
    [][(last'.op = "ft_resolve_transfer" /\ vars' # vars) =>
          \A i \in Slots, result \in PromiseResults :
              (FtResolveTransferOp(i, result)
                  /\ Rejecting(inflight[i].amount, result))
              => /\ Moved(accounts, accounts', inflight[i].receiver_id,
                          inflight[i].sender_id, inflight[i].amount)
                 /\ last'.ret = 0]_vars

\* C11: the callback of a rejected notified transfer moves the whole amount
\* back from the receiver to the sender, leaves every other balance and
\* total_supply alone, and reports 0 transferred, provided that when it
\* runs the sender is still registered and the receiver still holds at
\* least amount.  That is the case whenever no other receipt has returned
\* since the ft_transfer_call (it is the last receipt and the only transfer
\* in flight), and the ledger is then back to what it was before the call.
C11_RejectionRestores ==
    [][(last'.op = "ft_resolve_transfer" /\ vars' # vars) =>
          \A i \in Slots, result \in PromiseResults :
              (FtResolveTransferOp(i, result)
                  /\ Rejecting(inflight[i].amount, result))
              => LET p == inflight[i]
                 IN  /\ (p.sender_id \in DOMAIN accounts
                            /\ balance_or_zero(accounts, p.receiver_id) >= p.amount)
                        => /\ Moved(accounts, accounts', p.receiver_id,
                                    p.sender_id, p.amount)
                           /\ total_supply' = total_supply
                           /\ last'.ret = 0
                           /\ last'.unused = p.amount
                     /\ (last.op = "ft_transfer_call"
                            /\ \A j \in Slots \ {i} : inflight[j].phase = "Idle")
                        => /\ last.amount = p.amount
                           /\ p.sender_id \in DOMAIN accounts
                           /\ balance_or_zero(accounts, p.receiver_id) >= p.amount]_vars

\* C11 witness: the callback of a notified transfer has just returned the
\* whole amount to the sender after the hook rejected it.
C11_Witness ==
    /\ last.op = "ft_resolve_transfer"
    /\ last.amount > 0
    /\ last.unused = last.amount
    /\ last.ret = 0
    /\ \A i \in Slots : inflight[i].phase = "Idle"

\* The hook reports value unused, and value is a proper part of amount.
PartlyAccepted(amount, result) ==
    /\ result.status = "Successful" /\ result.parsed
    /\ 0 < result.value /\ result.value < amount

\* C12 as first stated: the callback of a notified transfer always returns
\* amount - unused, the unused amount being the one derived from the hook's
\* result.
C12_ReturnsAmountMinusUnused ==
    last.op = "ft_resolve_transfer" => last.ret = last.amount - last.unused

\* C12: when the hook reports u unused with 0 < u < amount, the callback
\* moves min(u, receiver's current balance) from the receiver back to the
\* sender; with the sender still registered and the receiver still holding
\* at least u, that is exactly u and the value returned is amount - u.  In
\* general the value returned is amount minus what the sender was given
\* back.
C12_PartialAcceptance ==
    [][(last'.op = "ft_resolve_transfer" /\ vars' # vars) =>
          \A i \in Slots, result \in PromiseResults :
              FtResolveTransferOp(i, result)
              => LET p == inflight[i]
                     given_back == balance_or_zero(accounts', p.sender_id)
                                     - balance_or_zero(accounts, p.sender_id)
                     clawback == Min(result.value,
                                     balance_or_zero(accounts, p.receiver_id))
                 IN  /\ last'.ret = p.amount - given_back
                     /\ last'.amount = p.amount
                     /\ (PartlyAccepted(p.amount, result)
                            /\ p.sender_id \in DOMAIN accounts)
                        => /\ last'.unused = result.value
                           /\ given_back = clawback
                           /\ total_supply' = total_supply
                           /\ IF clawback = 0
                              THEN accounts' = accounts
                              ELSE Moved(accounts, accounts', p.receiver_id,
                                         p.sender_id, clawback)
                           /\ balance_or_zero(accounts, p.receiver_id) >= result.value
                              => last'.ret = p.amount - result.value]_vars

\* C12 witness: the callback of a notified transfer has just given part of
\* the amount back to the sender and reported the rest as transferred.
C12_Witness ==
    /\ last.op = "ft_resolve_transfer"
    /\ 0 < last.unused /\ last.unused < last.amount
    /\ last.ret = last.amount - last.unused
    /\ \E a \in DOMAIN accounts : accounts[a] = last.unused

\* The values of a u128.
U128 == 0 .. U128_MAX

\* Every balance and the total supply of t are u128 values.
InRange(t) ==
    /\ t.total_supply \in U128
    /\ \A a \in DOMAIN t.accounts : t.accounts[a] \in U128

\* C13: every balance and total_supply are within 0 .. U128_MAX in every
\* reachable state, and a deposit, withdrawal or transfer whose result
\* would leave that range panics and leaves the state unchanged; one that
\* returns gives a state within the range.
C13_CheckedArithmetic ==
    /\ InRange(CurrentToken)
    /\ \A account_id \in AccountIds, amount \in Amounts :
          LET d == internal_deposit(CurrentToken, account_id, amount)
              w == internal_withdraw(CurrentToken, account_id, amount)
              balance == balance_or_zero(accounts, account_id)
          IN  /\ (balance + amount > U128_MAX \/ total_supply + amount > U128_MAX)
                    => ~d.ok /\ d.t = CurrentToken
              /\ (balance - amount < 0 \/ total_supply - amount < 0)
                    => ~w.ok /\ w.t = CurrentToken
              /\ InRange(d.t) /\ InRange(w.t)
    /\ \A sender_id \in AccountIds, receiver_id \in AccountIds, amount \in Amounts :
          LET r == internal_transfer(CurrentToken, sender_id, receiver_id, amount)
          IN  /\ (balance_or_zero(accounts, sender_id) - amount < 0
                    \/ balance_or_zero(accounts, receiver_id) + amount > U128_MAX)
                    => ~r.ok /\ r.t = CurrentToken
              /\ InRange(r.t)

\* C13 witness: after a transfer an account holds the largest u128 value,
\* so that a further deposit to it overflows, and another account holds
\* nothing, so that a withdrawal from it underflows.
C13_Witness ==
    /\ last.op = "ft_transfer"
    /\ \E a \in DOMAIN accounts, b \in DOMAIN accounts :
          /\ accounts[a] = U128_MAX
          /\ accounts[b] = 0
          /\ internal_deposit(CurrentToken, a, 1).err = "Balance overflow"
          /\ internal_deposit(CurrentToken, b, 1).err = "Total supply overflow"
          /\ ~internal_withdraw(CurrentToken, b, 1).ok

AlreadyInitialized == "Already initialized"

\* C14: once the contract has state, new and new_default_meta panic with
\* AlreadyInitialized for every owner, supply and metadata and leave
\* balances, total_supply, the registry and the metadata unchanged; the
\* contract stays initialized, its metadata never change again, and no step
\* raises total_supply.
C14_InitializedOnce ==
    /\ [](state_exists =>
            \A owner_id \in AccountIds, supply \in Amounts,
               metadata_valid \in BOOLEAN :
                Rejected(new_body(owner_id, supply, metadata_valid),
                         AlreadyInitialized))
    /\ [][state_exists =>
            /\ state_exists'
            /\ metadata' = metadata
            /\ total_supply' <= total_supply
            /\ last'.op \in {"new", "new_default_meta"}
                  => UNCHANGED <<accounts, total_supply, last>>]_vars

\* C14 witness: the contract was initialized with a supply, tokens have
\* since been burnt by a forced unregistration, and an initializer called
\* now is refused.
C14_Witness ==
    /\ state_exists
    /\ metadata = "given"
    /\ last.op = "storage_unregister" /\ last.amount > 0
    /\ ~new_body("alice", U128_MAX, TRUE).ok

\* C15 as first stated: the callback takes min(unused, receiver's current
\* balance) from the receiver and credits the sender exactly that amount.
C15_SenderAlwaysCredited ==
    [][(last'.op = "ft_resolve_transfer" /\ vars' # vars) =>
          \A i \in Slots, result \in PromiseResults :
              FtResolveTransferOp(i, result)
              => LET p == inflight[i]
                     receiver_balance == balance_or_zero(accounts, p.receiver_id)
                     clawback == Min(unused_amount_of(p.amount, result),
                                     receiver_balance)
                 IN  /\ balance_or_zero(accounts', p.receiver_id)
                           = receiver_balance - clawback
                     /\ balance_or_zero(accounts', p.sender_id)
                           = balance_or_zero(accounts, p.sender_id) + clawback]_vars

\* C15: the callback of a notified transfer can always run once the hook's
\* result is known, and leaves every balance and total_supply within range.
\* It takes min(unused, receiver's current balance) from the receiver,
\* which is 0 when the receiver is no longer registered or holds nothing;
\* it credits exactly that amount to the sender if the sender is still
\* registered, and otherwise burns it, lowering total_supply by it.  It
\* touches no other balance and no registration.
C15_CappedClawback ==
    /\ [](\A i \in Slots :
            inflight[i].phase = "ReceiptKnown"
            => \A result \in PromiseResults :
                  ENABLED FtResolveTransferOp(i, result))
    /\ [][(last'.op = "ft_resolve_transfer" /\ vars' # vars) =>
          \A i \in Slots, result \in PromiseResults :
              FtResolveTransferOp(i, result)
              => LET p == inflight[i]
                     receiver_balance == balance_or_zero(accounts, p.receiver_id)
                     clawback == Min(unused_amount_of(p.amount, result),
                                     receiver_balance)
                 IN  /\ InRange(Token(accounts', total_supply'))
                     /\ SameElsewhere(accounts, accounts',
                                      {p.sender_id, p.receiver_id})
                     /\ balance_or_zero(accounts', p.receiver_id)
                           = receiver_balance - clawback
                     /\ (p.receiver_id \notin DOMAIN accounts \/ receiver_balance = 0)
                           => clawback = 0 /\ accounts' = accounts
                                 /\ total_supply' = total_supply
                     /\ p.sender_id \in DOMAIN accounts
                           => /\ accounts'[p.sender_id]
                                    = accounts[p.sender_id] + clawback
                              /\ total_supply' = total_supply
                     /\ p.sender_id \notin DOMAIN accounts
                           => total_supply' = total_supply - clawback]_vars

\* C15 witness: the hook left 2 unused, the receiver held only 1 of them
\* when the callback ran, and the callback gave that 1 back.
C15_Witness ==
    /\ last.op = "ft_resolve_transfer"
    /\ last.amount = 2 /\ last.unused = 2 /\ last.ret = 1
    /\ total_supply = 2

\* Some notified transfer has been applied and not yet resolved.
InFlight == \E i \in Slots : inflight[i].phase # "Idle"

\* C16: total_supply equals the sum of all balances in every state in which
\* a notified transfer is in flight and in every state a callback leaves,
\* whatever transfers, registrations, unregistrations and other notified
\* transfers have run meanwhile.
C16_ConservationInFlight ==
    (InFlight \/ last.op = "ft_resolve_transfer")
        => total_supply = SumBalances(accounts)

\* C16 witness: a callback has just resolved one notified transfer, with
\* something to give back, while another, started before that callback
\* ran, is still in flight and its sender has been unregistered.
C16_Witness ==
    /\ last.op = "ft_resolve_transfer"
    /\ last.unused > 0
    /\ \E i \in Slots :
          /\ inflight[i].phase # "Idle"
          /\ inflight[i].sender_id \notin DOMAIN accounts
    /\ total_supply > 0

\* The steps a notified transfer's slot may take: it is taken by an
\* ft_transfer_call that has moved the amount in the same step, then the
\* hook's result becomes known, then the callback resolves it.
SlotStep(i) ==
    LET p == inflight[i]
        q == inflight'[i]
    IN  \/ q = p
        \/ /\ p.phase = "Idle" /\ q.phase = "AwaitingReceipt"
           /\ last'.op = "ft_transfer_call" /\ last'.amount = q.amount
           /\ q.amount > 0
           /\ Moved(accounts, accounts', q.sender_id, q.receiver_id, q.amount)
        \/ /\ p.phase = "AwaitingReceipt"
           /\ q = [p EXCEPT !.phase = "ReceiptKnown"]
           /\ UNCHANGED <<accounts, total_supply, last>>
        \/ /\ p.phase = "ReceiptKnown" /\ q = IdleSlot
           /\ last'.op = "ft_resolve_transfer" /\ last'.amount = p.amount

\* A callback has just resolved slot i as exactly one of Full (everything
\* transferred), Reverted (nothing transferred) or Partial.
Resolved(i) ==
    /\ inflight[i].phase = "Idle"
    /\ last.op = "ft_resolve_transfer"
    /\ last.ret \in 0 .. last.amount
    /\ Cardinality({k \in {"Full", "Partial", "Reverted"} :
            \/ k = "Full" /\ last.ret = last.amount
            \/ k = "Partial" /\ 0 < last.ret /\ last.ret < last.amount
            \/ k = "Reverted" /\ last.ret = 0}) = 1

\* C17: a notified transfer passes through applied-and-awaiting-receipt,
\* receipt known and resolved, in that order: its slot is taken in the very
\* step that debits the sender and credits the receiver, the callback runs
\* only on a slot whose hook result is known and frees it, every step
\* moves at most one slot, and an ft_transfer_call that returns always
\* takes a slot.  With every scheduled receipt eventually executed, each
\* transfer awaiting its receipt is eventually resolved as exactly one of
\* Full, Partial or Reverted.
C17_NotifyLifecycle ==
    /\ [][/\ \A i \in Slots : SlotStep(i)
          /\ Cardinality({i \in Slots : inflight'[i] # inflight[i]}) <= 1
          /\ (last'.op = "ft_transfer_call" /\ last' # last)
                => \E i \in Slots : inflight'[i] # inflight[i]]_vars
    /\ \A i \in 1 .. MaxInFlight :
          (inflight[i].phase = "AwaitingReceipt") ~> Resolved(i)

\* C17 witness: a notified transfer has gone through all its steps and its
\* callback has just resolved it as Partial.
C17_Witness ==
    /\ Resolved(1)
    /\ 0 < last.ret /\ last.ret < last.amount

\* C18: storage_deposit for an account that is registered already returns,
\* whatever value is attached (also below the minimum, also none): it
\* refunds the whole attached value, returns the account's storage balance
\* (the minimum), and leaves every balance, total_supply and the registry
\* unchanged.
C18_RegistrationIdempotent ==
    /\ [](state_exists =>
            \A predecessor \in AccountIds,
               account_id \in AccountIds \cup {NoAccount}, deposit \in Deposits :
                LET r == storage_deposit_call(predecessor, account_id, deposit)
                    target == TargetOf(predecessor, account_id)
                IN  target \in DOMAIN accounts
                    => /\ r.ok
                       /\ r.t = CurrentToken
                       /\ r.refund = deposit
                       /\ internal_storage_balance_of(r.t, target)
                            = [total |-> storage_balance_bounds_min,
                               available |-> 0])
    /\ [][(last'.op = "storage_deposit" /\ last'.refund = last'.deposit)
            => /\ UNCHANGED <<accounts, total_supply>>
               /\ last'.ret = storage_balance_bounds_min]_vars

\* C18 witness: a storage_deposit with less than the minimum attached has
\* just returned, refunding all of it, on a ledger that holds tokens.
C18_Witness ==
    /\ last.op = "storage_deposit"
    /\ 0 < last.deposit /\ last.deposit < storage_balance_bounds_min
    /\ last.refund = last.deposit
    /\ last.ret = storage_balance_bounds_min
    /\ total_supply > 0

InsufficientAvailableBalance ==
    "The amount is greater than the available storage balance"

\* Every registered account's storage balance is the minimum, none of it
\* available.
StakesAtMinimum ==
    \A a \in DOMAIN accounts :
        internal_storage_balance_of(CurrentToken, a)
            = [total |-> storage_balance_bounds_min, available |-> 0]

\* C19 as first stated: every stake is the minimum with nothing available,
\* and storage_withdraw by a registered account (one yocto attached) fails
\* with InsufficientAvailableBalance whatever amount it asks for.
C19_WithdrawAlwaysFails ==
    state_exists =>
        /\ StakesAtMinimum
        /\ \A predecessor \in DOMAIN accounts, amount \in Amounts \cup {NoAmount} :
              Rejected(storage_withdraw_call(predecessor, amount, ONE_YOCTO),
                       InsufficientAvailableBalance)

\* C19: every registered account's stake is the minimum with nothing
\* available.  storage_withdraw by a registered account (one yocto
\* attached) fails with InsufficientAvailableBalance for every amount above
\* 0; with no amount or amount 0 it returns the storage balance.  In no
\* case does it change a balance, a stake or the registry, or pay anything
\* out.
C19_NothingToWithdraw ==
    /\ [](state_exists =>
            /\ StakesAtMinimum
            /\ \A predecessor \in DOMAIN accounts,
                  amount \in Amounts \cup {NoAmount} :
                  LET r == storage_withdraw_call(predecessor, amount, ONE_YOCTO)
                  IN  /\ r.t = CurrentToken
                      /\ IF amount # NoAmount /\ amount > 0
                         THEN Rejected(r, InsufficientAvailableBalance)
                         ELSE r.ok)
    /\ [][last'.op = "storage_withdraw"
            => /\ UNCHANGED <<accounts, total_supply>>
               /\ last'.ret = storage_balance_bounds_min
               /\ last'.refund = 0]_vars

\* C19 witness: a storage_withdraw that asked for nothing has just returned
\* the storage balance, and the caller asking for 1 would be refused.
C19_Witness ==
    /\ last.op = "storage_withdraw"
    /\ last.ret = storage_balance_bounds_min
    /\ \E a \in DOMAIN accounts :
          /\ accounts[a] > 0
          /\ Rejected(storage_withdraw_call(a, 1, ONE_YOCTO),
                      InsufficientAvailableBalance)

\* The receipts that may add an entry to the accounts map.
Registering == {"new", "new_default_meta", "storage_deposit"}

\* C20: an account that is not registered has no balance entry and
\* ft_balance_of reports 0 for it, so every account with a nonzero balance
\* is registered; a balance entry appears only in a step of an initializer
\* (the owner's) or of storage_deposit (with balance 0).  ft_transfer,
\* ft_transfer_call, the hook's end, storage_withdraw, storage_unregister
\* and the callback of a notified transfer, also one whose sender or
\* receiver was unregistered meanwhile, never add an entry.
C20_BalancesOnlyForRegistered ==
    /\ [](\A a \in AccountIds :
            /\ a \notin DOMAIN accounts => ft_balance_of(a) = 0
            /\ ft_balance_of(a) # 0 => a \in DOMAIN accounts)
    /\ [][/\ DOMAIN accounts' \subseteq DOMAIN accounts
                \/ /\ last'.op \in Registering
                   /\ Cardinality(DOMAIN accounts' \ DOMAIN accounts) = 1
          /\ \A a \in DOMAIN accounts' \ DOMAIN accounts :
                last'.op = "storage_deposit" => accounts'[a] = 0
          /\ \A i \in Slots :
                (inflight[i].phase = "ReceiptKnown" /\ inflight'[i] = IdleSlot)
                => /\ DOMAIN accounts' = DOMAIN accounts
                   /\ \A a \in AccountIds :
                         balance_or_zero(accounts', a) > ft_balance_of(a)
                         => a \in DOMAIN accounts]_vars

\* C20 witness: a callback has just resolved a rejected notified transfer
\* with a single account left registered: the sender or the receiver was
\* unregistered while the transfer was in flight.
C20_Witness ==
    /\ last.op = "ft_resolve_transfer"
    /\ last.unused > 0
    /\ Cardinality(DOMAIN accounts) = 1

====
